---- MODULE Spec2Model ----
(***************************************************************************)
(* Model of the Truth and Dare API data layer: the DataCache of            *)
(* app/utils/data_loader.py (load_data, _build_indexes, ensure_loaded and  *)
(* the queries) and the service methods of app/services that sit on it.    *)
(*                                                                         *)
(* Strings are sequences of one-character strings, so that str.lower(),    *)
(* str.strip() and sorted() are computed and not assumed.  A JSON value of *)
(* a source file is [json |-> "object", fields |-> <function>] or          *)
(* [json |-> "number"]; category and difficulty values are strings, as in  *)
(* the data model, or absent.                                              *)
(*                                                                         *)
(* One cache, five families of operations, each with its specification:    *)
(*   Spec       the loader and the keyed lookups of the services;          *)
(*   QuerySpec  the random draws, the listings, health and statistics;     *)
(*   HttpSpec   the routes of app/routes over the services;                *)
(*   GameSpec   GameService.get_random_choice, the one operation that      *)
(*              writes into the records it returns;                        *)
(*   RaceSpec   two callers inside ensure_loaded and load_data at the same *)
(*              time, statement by statement.                              *)
(***************************************************************************)
EXTENDS Integers, Sequences, FiniteSets, TLC

(* ---------------------------- bounds ----------------------------------- *)

\* Largest number of records read from one source file.
MaxLen == 4

(* ---------------------------- strings ---------------------------------- *)

s_general == <<"g", "e", "n", "e", "r", "a", "l">>
s_medium == <<"m", "e", "d", "i", "u", "m">>
s_easy == <<"e", "a", "s", "y">>
s_hard == <<"h", "a", "r", "d">>
s_funny == <<"f", "u", "n", "n", "y">>
s_Funny == <<"F", "u", "n", "n", "y">>
s_deep == <<"d", "e", "e", "p">>
s_extreme == <<"e", "x", "t", "r", "e", "m", "e">>
s_empty == <<>>
s_blank == <<" ">>
s_FUNNY_sp == <<"F", "U", "N", "N", "Y", " ">>
s_sp_HARD == <<" ", "H", "A", "R", "D">>
s_Nope_sp == <<"N", "o", "p", "e", " ">>
s_insane == <<"i", "n", "s", "a", "n", "e">>
s_any == <<"a", "n", "y">>
s_relationships == <<"r", "e", "l", "a", "t", "i", "o", "n", "s", "h", "i", "p", "s">>
s_embarrassing == <<"e", "m", "b", "a", "r", "r", "a", "s", "s", "i", "n", "g">>
s_truths == <<"t", "r", "u", "t", "h", "s">>
s_dares == <<"d", "a", "r", "e", "s">>

\* ord() of the characters that occur in the model.
Ord(c) ==
    CASE c = " " -> 32
      [] c = "A" -> 65 [] c = "D" -> 68 [] c = "F" -> 70 [] c = "H" -> 72
      [] c = "N" -> 78 [] c = "R" -> 82 [] c = "U" -> 85 [] c = "Y" -> 89
      [] c = "a" -> 97 [] c = "d" -> 100 [] c = "e" -> 101 [] c = "f" -> 102
      [] c = "g" -> 103 [] c = "h" -> 104 [] c = "i" -> 105 [] c = "l" -> 108
      [] c = "m" -> 109 [] c = "n" -> 110 [] c = "o" -> 111 [] c = "p" -> 112
      [] c = "r" -> 114 [] c = "s" -> 115 [] c = "t" -> 116 [] c = "u" -> 117
      [] c = "x" -> 120 [] c = "y" -> 121

\* chr() on the same characters.
Chr(n) == CHOOSE c \in {" ", "A", "D", "F", "H", "N", "R", "U", "Y", "a", "d", "e",
                        "f", "g", "h", "i", "l", "m", "n", "o", "p", "r", "s",
                        "t", "u", "x", "y"} : Ord(c) = n

\* str.lower(): an upper-case letter moves to its lower-case code point.
Lower(s) == [i \in DOMAIN s |-> IF Ord(s[i]) >= 65 /\ Ord(s[i]) <= 90
                                   THEN Chr(Ord(s[i]) + 32) ELSE s[i]]

RECURSIVE LStrip(_)
LStrip(s) == IF s # <<>> /\ Head(s) = " " THEN LStrip(Tail(s)) ELSE s

RECURSIVE RStrip(_)
RStrip(s) == IF s # <<>> /\ s[Len(s)] = " " THEN RStrip(SubSeq(s, 1, Len(s) - 1)) ELSE s

\* str.strip(): leading and trailing whitespace removed.
Strip(s) == RStrip(LStrip(s))

\* s < t for Python strings: lexicographic by code point.
RECURSIVE StrLess(_, _)
StrLess(s, t) ==
    IF t = <<>> THEN FALSE
    ELSE IF s = <<>> THEN TRUE
    ELSE IF Head(s) # Head(t) THEN Ord(Head(s)) < Ord(Head(t))
    ELSE StrLess(Tail(s), Tail(t))

\* sorted() of a list of strings.
sorted(keys) == SortSeq(keys, StrLess)

SeqToSet(s) == {s[i] : i \in DOMAIN s}

RECURSIVE SumSeq(_)
SumSeq(s) == IF s = <<>> THEN 0 ELSE Head(s) + SumSeq(Tail(s))

\* The value of F at v, with v evaluated once: the binding of a local
\* variable to the result of a call.
With(v, F(_)) == CHOOSE y \in {F(x) : x \in {v}} : TRUE

Prefix(s, n) == SubSeq(s, 1, IF Len(s) < n THEN Len(s) ELSE n)

(* ------------------------- source files -------------------------------- *)

truths_file_path == "app/data/truths.json"
dares_file_path == "app/data/dares.json"

Truth(i, c) == [json |-> "object", fields |-> [id |-> i, category |-> c]]
Dare(i, d) == [json |-> "object", fields |-> [id |-> i, difficulty |-> d]]
Bare(i) == [json |-> "object", fields |-> [id |-> i]]
NotAnObject == [json |-> "number"]

\* Contents a truths file can have: well-formed records, some without a
\* category, some with an upper-case category.
TruthsGood == <<Truth(1, s_funny), Bare(2), Truth(3, s_funny), Truth(4, s_Funny),
                Truth(5, s_deep)>>
\* A truths file whose second element is not a JSON object.
TruthsBad == <<Truth(1, s_funny), NotAnObject, Truth(3, s_deep), Truth(4, s_funny),
               Truth(5, s_deep)>>
DaresGood == <<Dare(1, s_hard), Bare(2), Dare(3, s_hard), Dare(4, s_extreme),
               Dare(5, s_easy)>>
DaresBad == <<Dare(1, s_easy), NotAnObject, Dare(3, s_hard), Dare(4, s_easy),
              Dare(5, s_hard)>>

TruthLists == {<<>>} \cup {Prefix(m, MaxLen) : m \in {TruthsGood, TruthsBad}}
\* A dares file with two difficulties outside easy, medium, hard, met in an
\* order that is not the sorted one.
DaresOdd == <<Dare(1, s_insane), Dare(2, s_hard), Dare(3, s_extreme), Dare(4, s_easy),
              Dare(5, s_insane)>>

DareLists == {<<>>} \cup {Prefix(m, MaxLen) : m \in {DaresGood, DaresBad}}

\* A source file is absent, present but not JSON, or present with a list.
Missing == [state |-> "missing"]
Malformed == [state |-> "malformed"]
Parsed(l) == [state |-> "ok", data |-> l]

TruthSources == {Missing, Malformed} \cup {Parsed(l) : l \in TruthLists}
DareSources == {Missing, Malformed} \cup {Parsed(l) : l \in DareLists}

\* The sources under which the listings and the aggregate views are studied:
\* one more dares file, shorter than the truths files.
QueryTruthSources == TruthSources
QueryDareSources == DareSources \cup {Parsed(Prefix(DaresOdd, MaxLen - 1))}

(* --------------------------- exceptions -------------------------------- *)

NoError == [cls |-> "None"]

DataLoadError(file_path, reason) ==
    [cls |-> "DataLoadError", status_code |-> 500, file_path |-> file_path,
     reason |-> reason]

CategoryNotFoundError(category, available_categories) ==
    [cls |-> "CategoryNotFoundError", status_code |-> 404,
     requested_category |-> category, available_categories |-> available_categories]

DifficultyNotFoundError(difficulty, available_difficulties) ==
    [cls |-> "DifficultyNotFoundError", status_code |-> 404,
     requested_difficulty |-> difficulty,
     available_difficulties |-> available_difficulties]

NoDataAvailableError(filter_type, filter_value) ==
    [cls |-> "NoDataAvailableError", status_code |-> 404,
     filter_type |-> filter_type, filter_value |-> filter_value]

ValidationError(field, value, reason) ==
    [cls |-> "ValidationError", status_code |-> 422, field |-> field,
     value |-> value, reason |-> reason]

(* Exceptions of the interpreter that load_data can meet. *)
JSONDecodeError == [cls |-> "JSONDecodeError"]
AttributeError == [cls |-> "AttributeError"]
KeyError == [cls |-> "KeyError"]

(* ------------------------------ state ---------------------------------- *)

VARIABLES
    truthsSrc,              \* the file at settings.truths_file_path
    daresSrc,               \* the file at settings.dares_file_path
    truths,                 \* DataCache._truths
    dares,                  \* DataCache._dares
    truths_by_category,     \* DataCache._truths_by_category, in insertion order
    dares_by_difficulty,    \* DataCache._dares_by_difficulty, in insertion order
    loaded,                 \* DataCache._loaded
    lastCall,               \* the latest step: [op, arg]
    result,                 \* what the latest operation returned or raised
    loadCalls,              \* number of load_data calls made by the latest operation
    loadOutcome,            \* how the load attempt of the latest operation ended
    threads                 \* callers inside ensure_loaded: where each one stands

store == <<truths, dares, truths_by_category, dares_by_difficulty>>
cacheVars == <<truths, dares, truths_by_category, dares_by_difficulty, loaded>>
vars == <<truthsSrc, daresSrc, truths, dares, truths_by_category, dares_by_difficulty,
          loaded, lastCall, result, loadCalls, loadOutcome, threads>>

\* The callers that can be inside ensure_loaded at the same time.
Callers == {"first", "second"}

\* A caller that has not called ensure_loaded: pc is the statement it is at,
\* iter the elements its for loop has still to visit, key the category or
\* difficulty of the element it is at, raised the exception its call ended
\* with, loads the number of times it has entered load_data.
Outside == [pc |-> "call", loop |-> "truths", iter |-> <<>>, key |-> <<>>,
            raised |-> NoError, loads |-> 0]

\* The DataCache object as one value.
Cache == [truths |-> truths, dares |-> dares,
          truths_by_category |-> truths_by_category,
          dares_by_difficulty |-> dares_by_difficulty, loaded |-> loaded]

(* --------------------- dict with insertion order ----------------------- *)

\* list(d.keys())
dict_keys(idx) == [i \in DOMAIN idx |-> idx[i].key]

\* k in d
dict_has(idx, k) == \E i \in DOMAIN idx : idx[i].key = k

\* d[k]
dict_at(idx, k) == idx[CHOOSE i \in DOMAIN idx : idx[i].key = k].items

\* record.get(field, default)
dict_get(d, field, default) ==
    IF field \in DOMAIN d.fields THEN d.fields[field] ELSE default

\* index_add with insert(0, item) in place of append(item).
index_add_prepend(idx, k, item) ==
    IF ~dict_has(idx, k)
    THEN Append(idx, [key |-> k, items |-> <<item>>])
    ELSE [i \in DOMAIN idx |->
            IF idx[i].key = k
            THEN [key |-> k, items |-> <<item>> \o idx[i].items]
            ELSE idx[i]]

\* if key not in index: index[key] = []; index[key].append(item)
index_add(idx, k, item) ==
    IF ~dict_has(idx, k)
    THEN Append(idx, [key |-> k, items |-> <<item>>])
    ELSE [i \in DOMAIN idx |->
            IF idx[i].key = k
            THEN [key |-> k, items |-> Append(idx[i].items, item)]
            ELSE idx[i]]

\* One loop of _build_indexes over the items still to visit: an element that
\* is not a JSON object has no .get and stops the loop with the index as
\* built so far.
RECURSIVE index_loop(_, _, _, _)
index_loop(items, idx, field, default) ==
    IF items = <<>> THEN [idx |-> idx, raised |-> NoError]
    ELSE IF Head(items).json # "object" THEN [idx |-> idx, raised |-> AttributeError]
    ELSE index_loop(Tail(items),
                    index_add(idx, dict_get(Head(items), field, default), Head(items)),
                    field, default)

\* DataCache._build_indexes: the category index is reset and rebuilt, then
\* the difficulty index; an exception leaves what was assigned until then.
build_indexes(c) ==
    With(index_loop(c.truths, <<>>, "category", s_general), LAMBDA t :
        IF t.raised # NoError
        THEN [c |-> [c EXCEPT !.truths_by_category = t.idx], raised |-> t.raised]
        ELSE With(index_loop(c.dares, <<>>, "difficulty", s_medium), LAMBDA d :
                [c |-> [c EXCEPT !.truths_by_category = t.idx,
                                 !.dares_by_difficulty = d.idx],
                 raised |-> d.raised]))

(* ------------------------- calling convention ------------------------- *)

\* A call of a method is the value
\*   [c: the cache when the call ends, raised: the exception it ends with or
\*    NoError, choices: the values it can return (random.choice makes more
\*    than one possible), loads: how many times it called load_data,
\*    outcome: how its load attempt ended, "none" without attempt].
NoneValue == [json |-> "null"]

\* return v for some v in choices, no load attempted.
Return(c, choices) ==
    [c |-> c, raised |-> NoError, choices |-> choices, loads |-> 0, outcome |-> "none"]

\* raise e, no load attempted.
Raise(c, e) ==
    [c |-> c, raised |-> e, choices |-> {}, loads |-> 0, outcome |-> "none"]

\* The call `second` made after the call `first` has returned.
After(first, second) ==
    With(second, LAMBDA s :
        [s EXCEPT !.loads = first.loads + s.loads,
                  !.outcome = IF s.loads > 0 THEN s.outcome ELSE first.outcome])

(* ----------------------------- DataCache ------------------------------- *)

\* The except clauses of load_data, applied to the exception e raised in its
\* try block.  DataLoadError is no JSONDecodeError and no FileNotFoundError,
\* so the last clause takes it.
load_data_except(e) ==
    IF e.cls = "JSONDecodeError" THEN DataLoadError("JSON file", "Invalid JSON format")
    ELSE IF e.cls = "FileNotFoundError" THEN DataLoadError(e.filename, "File not found")
    ELSE DataLoadError("Unknown", "Unexpected error")

\* The try block of DataCache.load_data, statement by statement: the cache
\* as it is when the block ends, the exception that ended it (or NoError)
\* and the cause of the failure.
load_data_try(c, tsrc, dsrc) ==
    IF tsrc.state = "missing"
    THEN [c |-> c, raised |-> DataLoadError(truths_file_path, "File does not exist"),
          outcome |-> "missing"]
    ELSE IF tsrc.state = "malformed"
    THEN [c |-> c, raised |-> JSONDecodeError, outcome |-> "malformed"]
    ELSE LET c1 == [c EXCEPT !.truths = tsrc.data]
         IN  IF dsrc.state = "missing"
             THEN [c |-> c1,
                   raised |-> DataLoadError(dares_file_path, "File does not exist"),
                   outcome |-> "missing"]
             ELSE IF dsrc.state = "malformed"
             THEN [c |-> c1, raised |-> JSONDecodeError, outcome |-> "malformed"]
             ELSE With(build_indexes([c1 EXCEPT !.dares = dsrc.data]), LAMBDA b :
                    IF b.raised # NoError
                    THEN [c |-> b.c, raised |-> b.raised, outcome |-> "build"]
                    ELSE [c |-> [b.c EXCEPT !.loaded = TRUE], raised |-> NoError,
                          outcome |-> "ok"])

\* DataCache.load_data
load_data(c, tsrc, dsrc) ==
    With(load_data_try(c, tsrc, dsrc), LAMBDA t :
        [c |-> t.c,
         raised |-> IF t.raised = NoError THEN NoError ELSE load_data_except(t.raised),
         choices |-> IF t.raised = NoError THEN {NoneValue} ELSE {},
         loads |-> 1, outcome |-> t.outcome])

\* ensure_loaded without its test of the flag.
ensure_loaded_always(c, tsrc, dsrc) == load_data(c, tsrc, dsrc)

\* DataCache.ensure_loaded
ensure_loaded(c, tsrc, dsrc) ==
    IF ~c.loaded THEN load_data(c, tsrc, dsrc)
    ELSE Return(c, {NoneValue})

\* DataCache.get_stats, after ensure_loaded has returned.
stats_of(c) ==
    [total_truths |-> Len(c.truths),
     total_dares |-> Len(c.dares),
     categories |-> [i \in DOMAIN c.truths_by_category |->
                        [key |-> c.truths_by_category[i].key,
                         count |-> Len(c.truths_by_category[i].items)]],
     difficulties |-> [i \in DOMAIN c.dares_by_difficulty |->
                        [key |-> c.dares_by_difficulty[i].key,
                         count |-> Len(c.dares_by_difficulty[i].items)]]]

\* get_stats reporting on whatever the cache holds when the load has failed.
DataCache_get_stats_ignoring_failure(c, tsrc, dsrc) ==
    With(ensure_loaded(c, tsrc, dsrc), LAMBDA e :
        [e EXCEPT !.raised = NoError, !.choices = {stats_of(e.c)}])

\* DataCache.get_stats
DataCache_get_stats(c, tsrc, dsrc) ==
    With(ensure_loaded(c, tsrc, dsrc), LAMBDA e :
        IF e.raised # NoError THEN e
        ELSE After(e, Return(e.c, {stats_of(e.c)})))

\* DataCache.get_truth_by_category
DataCache_get_truth_by_category(c, tsrc, dsrc, category) ==
    With(ensure_loaded(c, tsrc, dsrc), LAMBDA e :
        LET available_categories == dict_keys(e.c.truths_by_category)
        IN  IF e.raised # NoError THEN e
            ELSE IF ~dict_has(e.c.truths_by_category, category)
            THEN After(e, Raise(e.c, CategoryNotFoundError(category,
                                                           available_categories)))
            ELSE IF dict_at(e.c.truths_by_category, category) = <<>>
            THEN After(e, Raise(e.c, NoDataAvailableError("category", category)))
            ELSE After(e, Return(e.c, SeqToSet(dict_at(e.c.truths_by_category,
                                                       category)))))

\* DataCache.get_dare_by_difficulty
DataCache_get_dare_by_difficulty(c, tsrc, dsrc, difficulty) ==
    With(ensure_loaded(c, tsrc, dsrc), LAMBDA e :
        LET available_difficulties == dict_keys(e.c.dares_by_difficulty)
        IN  IF e.raised # NoError THEN e
            ELSE IF ~dict_has(e.c.dares_by_difficulty, difficulty)
            THEN After(e, Raise(e.c, DifficultyNotFoundError(difficulty,
                                                             available_difficulties)))
            ELSE IF dict_at(e.c.dares_by_difficulty, difficulty) = <<>>
            THEN After(e, Raise(e.c, NoDataAvailableError("difficulty", difficulty)))
            ELSE After(e, Return(e.c, SeqToSet(dict_at(e.c.dares_by_difficulty,
                                                       difficulty)))))

\* DataCache.get_available_categories
DataCache_get_available_categories(c, tsrc, dsrc) ==
    With(ensure_loaded(c, tsrc, dsrc), LAMBDA e :
        IF e.raised # NoError THEN e
        ELSE After(e, Return(e.c, {dict_keys(e.c.truths_by_category)})))

\* DataCache.get_available_difficulties
DataCache_get_available_difficulties(c, tsrc, dsrc) ==
    With(ensure_loaded(c, tsrc, dsrc), LAMBDA e :
        IF e.raised # NoError THEN e
        ELSE After(e, Return(e.c, {dict_keys(e.c.dares_by_difficulty)})))

\* All records held in the buckets of an index.
bucket_union(idx) == UNION {SeqToSet(idx[i].items) : i \in DOMAIN idx}

\* get_random_truth drawing from the buckets of the category index in place
\* of the full list.
DataCache_get_random_truth_from_buckets(c, tsrc, dsrc) ==
    With(ensure_loaded(c, tsrc, dsrc), LAMBDA e :
        IF e.raised # NoError THEN e
        ELSE IF bucket_union(e.c.truths_by_category) = {}
        THEN After(e, Raise(e.c, NoDataAvailableError(s_truths, s_any)))
        ELSE After(e, Return(e.c, bucket_union(e.c.truths_by_category))))

\* DataCache.get_random_truth: random.choice over the whole list.
DataCache_get_random_truth(c, tsrc, dsrc) ==
    With(ensure_loaded(c, tsrc, dsrc), LAMBDA e :
        IF e.raised # NoError THEN e
        ELSE IF e.c.truths = <<>>
        THEN After(e, Raise(e.c, NoDataAvailableError(s_truths, s_any)))
        ELSE After(e, Return(e.c, SeqToSet(e.c.truths))))

\* DataCache.get_random_dare: random.choice over the whole list.
DataCache_get_random_dare(c, tsrc, dsrc) ==
    With(ensure_loaded(c, tsrc, dsrc), LAMBDA e :
        IF e.raised # NoError THEN e
        ELSE IF e.c.dares = <<>>
        THEN After(e, Raise(e.c, NoDataAvailableError(s_dares, s_any)))
        ELSE After(e, Return(e.c, SeqToSet(e.c.dares))))

(* ------------------------------ services ------------------------------- *)

\* Arguments a caller can pass where a string is expected.
StrKey(s) == [type |-> "str", s |-> s]
IntKey(n) == [type |-> "int", n |-> n]
NoneKey == [type |-> "NoneType"]
NoArg == [type |-> "noarg"]

\* bool(x)
truthy(x) ==
    IF x.type = "str" THEN x.s # <<>>
    ELSE IF x.type = "int" THEN x.n # 0
    ELSE FALSE

\* normalize without strip().
normalize_lower_only(s) == Lower(s)

\* category.lower().strip()
normalize(s) == Strip(Lower(s))

\* get_available_categories without sorted().
TruthService_get_available_categories_unsorted(c, tsrc, dsrc) ==
    DataCache_get_available_categories(c, tsrc, dsrc)

\* TruthService.get_available_categories
TruthService_get_available_categories(c, tsrc, dsrc) ==
    With(DataCache_get_available_categories(c, tsrc, dsrc), LAMBDA r :
        IF r.raised # NoError THEN r
        ELSE [r EXCEPT !.choices = {sorted(categories) : categories \in r.choices}])

\* ordered_difficulties with the remaining keys sorted.
ordered_difficulties_sorted_rest(difficulties) ==
    LET standard == SelectSeq(<<s_easy, s_medium, s_hard>>,
                              LAMBDA level : level \in SeqToSet(difficulties))
    IN  standard \o sorted(SelectSeq(difficulties,
                                     LAMBDA level : level \notin SeqToSet(standard)))

\* The body of DareService.get_available_difficulties after the cache call:
\* easy, medium, hard when present, then the other keys as the cache lists
\* them.
ordered_difficulties(difficulties) ==
    LET standard == SelectSeq(<<s_easy, s_medium, s_hard>>,
                              LAMBDA level : level \in SeqToSet(difficulties))
    IN  standard \o SelectSeq(difficulties,
                              LAMBDA level : level \notin SeqToSet(standard))

\* DareService.get_available_difficulties
DareService_get_available_difficulties(c, tsrc, dsrc) ==
    With(DataCache_get_available_difficulties(c, tsrc, dsrc), LAMBDA r :
        IF r.raised # NoError THEN r
        ELSE [r EXCEPT !.choices = {ordered_difficulties(d) : d \in r.choices}])

\* get_truth_by_category without the except clause that raises the error
\* again with the caller's input.
TruthService_get_truth_by_category_no_reraise(c, tsrc, dsrc, category) ==
    IF ~truthy(category)
    THEN Raise(c, ValidationError("category", category, "Category cannot be empty"))
    ELSE IF category.type # "str"
    THEN Raise(c, ValidationError("category", category, "Category must be a string"))
    ELSE With(normalize(category.s), LAMBDA normalized_category :
            DataCache_get_truth_by_category(c, tsrc, dsrc, normalized_category))

\* TruthService.get_truth_by_category
TruthService_get_truth_by_category(c, tsrc, dsrc, category) ==
    IF ~truthy(category)
    THEN Raise(c, ValidationError("category", category, "Category cannot be empty"))
    ELSE IF category.type # "str"
    THEN Raise(c, ValidationError("category", category, "Category must be a string"))
    ELSE With(normalize(category.s), LAMBDA normalized_category :
         With(DataCache_get_truth_by_category(c, tsrc, dsrc, normalized_category),
              LAMBDA r :
            IF r.raised.cls # "CategoryNotFoundError" THEN r
            ELSE With(TruthService_get_available_categories(r.c, tsrc, dsrc),
                      LAMBDA a :
                    IF a.raised # NoError THEN After(r, a)
                    ELSE After(r, After(a, Raise(a.c,
                            CategoryNotFoundError(category.s,
                                                  CHOOSE l \in a.choices : TRUE)))))))

\* get_dare_by_difficulty with the validation placed after a first access
\* to the cache.
DareService_get_dare_by_difficulty_late_check(c, tsrc, dsrc, difficulty) ==
    With(ensure_loaded(c, tsrc, dsrc), LAMBDA e :
        IF e.raised # NoError THEN e
        ELSE IF ~truthy(difficulty)
        THEN After(e, Raise(e.c, ValidationError("difficulty", difficulty,
                                                 "Difficulty cannot be empty")))
        ELSE IF difficulty.type # "str"
        THEN After(e, Raise(e.c, ValidationError("difficulty", difficulty,
                                                 "Difficulty must be a string")))
        ELSE After(e, DataCache_get_dare_by_difficulty(e.c, tsrc, dsrc,
                                                       normalize(difficulty.s))))

\* DareService.get_dare_by_difficulty
DareService_get_dare_by_difficulty(c, tsrc, dsrc, difficulty) ==
    IF ~truthy(difficulty)
    THEN Raise(c, ValidationError("difficulty", difficulty,
                                  "Difficulty cannot be empty"))
    ELSE IF difficulty.type # "str"
    THEN Raise(c, ValidationError("difficulty", difficulty,
                                  "Difficulty must be a string"))
    ELSE With(normalize(difficulty.s), LAMBDA normalized_difficulty :
         With(DataCache_get_dare_by_difficulty(c, tsrc, dsrc, normalized_difficulty),
              LAMBDA r :
            IF r.raised.cls # "DifficultyNotFoundError" THEN r
            ELSE With(DareService_get_available_difficulties(r.c, tsrc, dsrc),
                      LAMBDA a :
                    IF a.raised # NoError THEN After(r, a)
                    ELSE After(r, After(a, Raise(a.c,
                            DifficultyNotFoundError(difficulty.s,
                                                    CHOOSE l \in a.choices : TRUE)))))))

\* TruthService.get_category_stats
TruthService_get_category_stats(c, tsrc, dsrc) ==
    With(DataCache_get_stats(c, tsrc, dsrc), LAMBDA r :
        IF r.raised # NoError THEN r
        ELSE [r EXCEPT !.choices = {stats.categories : stats \in r.choices}])

\* DareService.get_difficulty_stats
DareService_get_difficulty_stats(c, tsrc, dsrc) ==
    With(DataCache_get_stats(c, tsrc, dsrc), LAMBDA r :
        IF r.raised # NoError THEN r
        ELSE [r EXCEPT !.choices = {stats.difficulties : stats \in r.choices}])

\* TruthService.get_random_truth, pick being the place that random.choice
\* draws in the cache: the f-string of the debug line calls truth.get, which
\* an element that is not a JSON object does not have.
TruthService_get_random_truth(c, tsrc, dsrc, pick) ==
    With(DataCache_get_random_truth(c, tsrc, dsrc), LAMBDA r :
        IF r.raised # NoError THEN r
        ELSE IF r.c.truths[pick].json # "object"
        THEN [r EXCEPT !.raised = AttributeError, !.choices = {}]
        ELSE [r EXCEPT !.choices = {r.c.truths[pick]}])

\* DareService.get_random_dare, pick being the place that random.choice
\* draws in the cache.
DareService_get_random_dare(c, tsrc, dsrc, pick) ==
    With(DataCache_get_random_dare(c, tsrc, dsrc), LAMBDA r :
        IF r.raised # NoError THEN r
        ELSE IF r.c.dares[pick].json # "object"
        THEN [r EXCEPT !.raised = AttributeError, !.choices = {}]
        ELSE [r EXCEPT !.choices = {r.c.dares[pick]}])

(* ---------------------------- game service ----------------------------- *)

\* The dict item after item["type"] = kind.
with_type(item, kind) ==
    [item EXCEPT !.fields = [f \in DOMAIN item.fields \cup {"type"} |->
                                IF f = "type" THEN kind ELSE item.fields[f]]]

\* A list of dicts after item["type"] = kind: the assignment writes into the
\* dict object itself, wherever the list holds it.
list_set_type(list, item, kind) ==
    [n \in DOMAIN list |-> IF list[n] = item THEN with_type(item, kind) ELSE list[n]]

\* An index after item["type"] = kind: a bucket holds the very dict objects
\* of the list it was built from.
index_set_type(idx, item, kind) ==
    [i \in DOMAIN idx |-> [key |-> idx[i].key,
                           items |-> list_set_type(idx[i].items, item, kind)]]

\* get_random_choice without the assignment of the type.
GameService_get_random_choice_untagged(c, tsrc, dsrc, is_truth, pick) ==
    IF is_truth THEN TruthService_get_random_truth(c, tsrc, dsrc, pick)
    ELSE DareService_get_random_dare(c, tsrc, dsrc, pick)

\* get_random_choice that turns to the other kind when the chosen kind has
\* no data.
GameService_get_random_choice_fallback(c, tsrc, dsrc, is_truth, pick) ==
    With(IF is_truth THEN TruthService_get_random_truth(c, tsrc, dsrc, pick)
         ELSE DareService_get_random_dare(c, tsrc, dsrc, pick), LAMBDA r :
      With(IF r.raised.cls # "NoDataAvailableError" THEN r
           ELSE IF is_truth THEN After(r, DareService_get_random_dare(r.c, tsrc, dsrc, 1))
           ELSE After(r, TruthService_get_random_truth(r.c, tsrc, dsrc, 1)), LAMBDA q :
        IF q.raised # NoError THEN q
        ELSE With(CHOOSE item \in q.choices : TRUE, LAMBDA item :
                [q EXCEPT !.choices = {with_type(item, IF item \in SeqToSet(q.c.truths)
                                                       THEN "truth" ELSE "dare")}])))

\* GameService.get_random_choice, is_truth being the draw of
\* random.choice([True, False]): the record of the chosen service gets its
\* type written into it and is returned; any exception is raised again.
GameService_get_random_choice(c, tsrc, dsrc, is_truth, pick) ==
    IF is_truth
    THEN With(TruthService_get_random_truth(c, tsrc, dsrc, pick), LAMBDA r :
            IF r.raised # NoError THEN r
            ELSE With(CHOOSE item \in r.choices : TRUE, LAMBDA item :
                    [r EXCEPT !.choices = {with_type(item, "truth")},
                              !.c.truths = list_set_type(r.c.truths, item, "truth"),
                              !.c.truths_by_category =
                                  index_set_type(r.c.truths_by_category, item, "truth")]))
    ELSE With(DareService_get_random_dare(c, tsrc, dsrc, pick), LAMBDA r :
            IF r.raised # NoError THEN r
            ELSE With(CHOOSE item \in r.choices : TRUE, LAMBDA item :
                    [r EXCEPT !.choices = {with_type(item, "dare")},
                              !.c.dares = list_set_type(r.c.dares, item, "dare"),
                              !.c.dares_by_difficulty =
                                  index_set_type(r.c.dares_by_difficulty, item, "dare")]))


\* sum(d.values()) of a dict of counts.
sum_values(d) == SumSeq([i \in DOMAIN d |-> d[i].count])

\* str(e) of an API exception: the message its constructor builds.
str_of(e) ==
    IF e.cls = "DataLoadError" THEN <<"Failed to load data file: ", e.file_path>>
    ELSE IF e.cls = "NoDataAvailableError"
    THEN <<"No data available for ", e.filter_type, ": ", e.filter_value>>
    ELSE IF e.cls = "CategoryNotFoundError"
    THEN <<"Category '", e.requested_category, "' not found. Available categories: ",
           e.available_categories>>
    ELSE IF e.cls = "DifficultyNotFoundError"
    THEN <<"Difficulty '", e.requested_difficulty,
           "' not found. Available difficulties: ", e.available_difficulties>>
    ELSE IF e.cls = "ValidationError"
    THEN <<"Validation error for field '", e.field, "' with value '", e.value, "': ",
           e.reason>>
    ELSE <<e.cls>>

\* datetime.utcnow().isoformat(): the text of the clock, of no concern here.
utcnow == "utcnow"

\* The status lines of get_health_status with the two tests exchanged.
health_status_unhealthy_first(total_truths, total_dares) ==
    With(IF total_truths = 0 /\ total_dares = 0 THEN "unhealthy" ELSE "healthy",
         LAMBDA status :
            IF total_truths = 0 \/ total_dares = 0 THEN "degraded" ELSE status)

\* The status lines of get_health_status: "healthy", overwritten by
\* "degraded", overwritten by "unhealthy".
health_status(total_truths, total_dares) ==
    With(IF total_truths = 0 \/ total_dares = 0 THEN "degraded" ELSE "healthy",
         LAMBDA status :
            IF total_truths = 0 /\ total_dares = 0 THEN "unhealthy" ELSE status)

\* The dict built in the try block of get_health_status.
health_info(truth_stats, dare_stats) ==
    [status |-> health_status(sum_values(truth_stats), sum_values(dare_stats)),
     timestamp |-> utcnow,
     data |-> [total_truths |-> sum_values(truth_stats),
               total_dares |-> sum_values(dare_stats),
               truth_categories |-> Len(truth_stats),
               dare_difficulties |-> Len(dare_stats)],
     categories |-> truth_stats,
     difficulties |-> dare_stats]

\* The dict returned by the except clause of get_health_status.
health_error(e) ==
    [status |-> "unhealthy",
     timestamp |-> utcnow,
     error |-> str_of(e),
     data |-> [total_truths |-> 0, total_dares |-> 0,
               truth_categories |-> 0, dare_difficulties |-> 0]]

\* The try block of GameService.get_health_status.
get_health_status_try(c, tsrc, dsrc) ==
    With(TruthService_get_category_stats(c, tsrc, dsrc), LAMBDA t :
        IF t.raised # NoError THEN t
        ELSE With(After(t, DareService_get_difficulty_stats(t.c, tsrc, dsrc)), LAMBDA d :
                IF d.raised # NoError THEN d
                ELSE [d EXCEPT !.choices = {health_info(truth_stats, dare_stats) :
                                                truth_stats \in t.choices,
                                                dare_stats \in d.choices}]))

\* get_health_status without its except clause.
GameService_get_health_status_no_except(c, tsrc, dsrc) ==
    get_health_status_try(c, tsrc, dsrc)

\* GameService.get_health_status: whatever the try block raises is turned
\* into a returned dict.
GameService_get_health_status(c, tsrc, dsrc) ==
    With(get_health_status_try(c, tsrc, dsrc), LAMBDA t :
        IF t.raised = NoError THEN t
        ELSE [t EXCEPT !.raised = NoError, !.choices = {health_error(t.raised)}])

\* get_game_stats with the truth total counted twice in total_items.
GameService_get_game_stats_truths_twice(c, tsrc, dsrc) ==
    With(TruthService_get_category_stats(c, tsrc, dsrc), LAMBDA t :
        IF t.raised # NoError THEN t
        ELSE With(After(t, DareService_get_difficulty_stats(t.c, tsrc, dsrc)), LAMBDA d :
        IF d.raised # NoError THEN d
        ELSE With(After(d, TruthService_get_available_categories(d.c, tsrc, dsrc)),
                  LAMBDA ac :
        IF ac.raised # NoError THEN ac
        ELSE With(After(ac, DareService_get_available_difficulties(ac.c, tsrc, dsrc)),
                  LAMBDA ad :
        IF ad.raised # NoError THEN ad
        ELSE [ad EXCEPT !.choices =
                {[truths |-> [total |-> sum_values(truth_stats),
                              categories |-> truth_stats,
                              available_categories |-> available_categories],
                  dares |-> [total |-> sum_values(dare_stats),
                             difficulties |-> dare_stats,
                             available_difficulties |-> available_difficulties],
                  total_items |-> sum_values(truth_stats) + sum_values(truth_stats)] :
                    truth_stats \in t.choices, dare_stats \in d.choices,
                    available_categories \in ac.choices,
                    available_difficulties \in ad.choices}]))))

\* GameService.get_game_stats: an exception of any of the four calls is
\* raised again.
GameService_get_game_stats(c, tsrc, dsrc) ==
    With(TruthService_get_category_stats(c, tsrc, dsrc), LAMBDA t :
        IF t.raised # NoError THEN t
        ELSE With(After(t, DareService_get_difficulty_stats(t.c, tsrc, dsrc)), LAMBDA d :
        IF d.raised # NoError THEN d
        ELSE With(After(d, TruthService_get_available_categories(d.c, tsrc, dsrc)),
                  LAMBDA ac :
        IF ac.raised # NoError THEN ac
        ELSE With(After(ac, DareService_get_available_difficulties(ac.c, tsrc, dsrc)),
                  LAMBDA ad :
        IF ad.raised # NoError THEN ad
        ELSE [ad EXCEPT !.choices =
                {[truths |-> [total |-> sum_values(truth_stats),
                              categories |-> truth_stats,
                              available_categories |-> available_categories],
                  dares |-> [total |-> sum_values(dare_stats),
                             difficulties |-> dare_stats,
                             available_difficulties |-> available_difficulties],
                  total_items |-> sum_values(truth_stats) + sum_values(dare_stats)] :
                    truth_stats \in t.choices, dare_stats \in d.choices,
                    available_categories \in ac.choices,
                    available_difficulties \in ad.choices}]))))

(* ------------------------------- routes -------------------------------- *)

\* What the HTTP caller receives.
Response(status_code, body) == [status_code |-> status_code, body |-> body]

\* The values of the enums TruthCategory and DareDifficulty.
TruthCategory == {s_general, s_relationships, s_funny, s_deep, s_embarrassing}
DareDifficulty == {s_easy, s_medium, s_hard}

\* isinstance(e, TruthDareAPIException)
IsAPIException(e) ==
    e.cls \in {"DataLoadError", "CategoryNotFoundError", "DifficultyNotFoundError",
               "NoDataAvailableError", "ValidationError"}

\* raise HTTPException(status_code, detail), as http_exception_handler
\* answers it.
http_exception(status_code, detail) ==
    Response(status_code, [error |-> "HTTPException", message |-> detail,
                           status_code |-> status_code])

\* The except clauses of a route with every exception answered 500.
route_except_all_500(e) == http_exception(500, <<"Internal server error">>)

\* The two except clauses of a content route: an API exception keeps its
\* status code and message, any other exception becomes 500.
route_except(e) ==
    IF IsAPIException(e) THEN http_exception(e.status_code, str_of(e))
    ELSE http_exception(500, <<"Internal server error">>)

\* The answer of validation_exception_handler to a request that FastAPI
\* rejects.
request_validation_failed ==
    Response(422, [error |-> "ValidationError",
                   message |-> <<"Request validation failed">>, status_code |-> 422])

\* Path(..., regex="^[a-zA-Z]+$")
path_matches(path) ==
    /\ path # <<>>
    /\ \A i \in DOMAIN path : \/ (Ord(path[i]) >= 65 /\ Ord(path[i]) <= 90)
                               \/ (Ord(path[i]) >= 97 /\ Ord(path[i]) <= 122)

\* return TruthResponse(id=truth_data["id"], ..., category=truth_data["category"])
\* inside the try of a route: a missing key is a KeyError, a category outside
\* the enum fails the validation of the model, and both end in the second
\* except clause.  Every record has its content, which no index looks at.
truth_response(truth_data) ==
    IF ~({"id", "category"} \subseteq DOMAIN truth_data.fields)
    THEN http_exception(500, <<"Internal server error">>)
    ELSE IF truth_data.fields.category \notin TruthCategory
    THEN http_exception(500, <<"Internal server error">>)
    ELSE Response(200, [id |-> truth_data.fields.id, type |-> "truth",
                        category |-> truth_data.fields.category])

\* return DareResponse(id=dare_data["id"], ..., difficulty=dare_data["difficulty"])
dare_response(dare_data) ==
    IF ~({"id", "difficulty"} \subseteq DOMAIN dare_data.fields)
    THEN http_exception(500, <<"Internal server error">>)
    ELSE IF dare_data.fields.difficulty \notin DareDifficulty
    THEN http_exception(500, <<"Internal server error">>)
    ELSE Response(200, [id |-> dare_data.fields.id, type |-> "dare",
                        difficulty |-> dare_data.fields.difficulty])

\* return GameResponse(...) of get_random_game, by game_data["type"].
game_response(game_data) ==
    IF game_data.fields.type = "truth"
    THEN IF truth_response(game_data).status_code # 200 THEN truth_response(game_data)
         ELSE Response(200, [id |-> game_data.fields.id, type |-> "truth",
                             category |-> game_data.fields.category,
                             difficulty |-> NoneValue])
    ELSE IF dare_response(game_data).status_code # 200 THEN dare_response(game_data)
         ELSE Response(200, [id |-> game_data.fields.id, type |-> "dare",
                             category |-> NoneValue,
                             difficulty |-> game_data.fields.difficulty])

\* The call r of a service as a route answers it: every exception is
\* answered by the except clauses, so the route itself returns.
Answered(r, responses) == [r EXCEPT !.raised = NoError, !.choices = responses]

\* routes/truth.py get_random_truth: GET /truth
route_get_random_truth(c, tsrc, dsrc, pick) ==
    With(TruthService_get_random_truth(c, tsrc, dsrc, pick), LAMBDA r :
        IF r.raised # NoError THEN Answered(r, {route_except(r.raised)})
        ELSE Answered(r, {truth_response(truth_data) : truth_data \in r.choices}))

\* The body of routes/truth.py get_truth_by_category.
route_get_truth_by_category(c, tsrc, dsrc, category) ==
    With(TruthService_get_truth_by_category(c, tsrc, dsrc, category), LAMBDA r :
        IF r.raised # NoError THEN Answered(r, {route_except(r.raised)})
        ELSE Answered(r, {truth_response(truth_data) : truth_data \in r.choices}))

\* GET /truth/{category}: FastAPI checks the path parameter, then calls the
\* route.
GET_truth_by_category(c, tsrc, dsrc, path) ==
    IF ~path_matches(path) THEN Return(c, {request_validation_failed})
    ELSE route_get_truth_by_category(c, tsrc, dsrc, StrKey(path))

\* routes/truth.py get_available_categories: GET /truth/categories/list
route_get_available_categories(c, tsrc, dsrc) ==
    With(TruthService_get_available_categories(c, tsrc, dsrc), LAMBDA r :
        IF r.raised # NoError
        THEN Answered(r, {http_exception(500, <<"Internal server error">>)})
        ELSE Answered(r, {Response(200, categories) : categories \in r.choices}))

\* routes/dare.py get_random_dare: GET /dare
route_get_random_dare(c, tsrc, dsrc, pick) ==
    With(DareService_get_random_dare(c, tsrc, dsrc, pick), LAMBDA r :
        IF r.raised # NoError THEN Answered(r, {route_except(r.raised)})
        ELSE Answered(r, {dare_response(dare_data) : dare_data \in r.choices}))

\* The body of routes/dare.py get_dare_by_difficulty.
route_get_dare_by_difficulty(c, tsrc, dsrc, difficulty) ==
    With(DareService_get_dare_by_difficulty(c, tsrc, dsrc, difficulty), LAMBDA r :
        IF r.raised # NoError THEN Answered(r, {route_except(r.raised)})
        ELSE Answered(r, {dare_response(dare_data) : dare_data \in r.choices}))

\* GET /dare/{difficulty}
GET_dare_by_difficulty(c, tsrc, dsrc, path) ==
    IF ~path_matches(path) THEN Return(c, {request_validation_failed})
    ELSE route_get_dare_by_difficulty(c, tsrc, dsrc, StrKey(path))

\* routes/dare.py get_available_difficulties: GET /dare/difficulties/list
route_get_available_difficulties(c, tsrc, dsrc) ==
    With(DareService_get_available_difficulties(c, tsrc, dsrc), LAMBDA r :
        IF r.raised # NoError
        THEN Answered(r, {http_exception(500, <<"Internal server error">>)})
        ELSE Answered(r, {Response(200, difficulties) : difficulties \in r.choices}))

\* routes/game.py get_random_game: GET /game/random
route_get_random_game(c, tsrc, dsrc, is_truth, pick) ==
    With(GameService_get_random_choice(c, tsrc, dsrc, is_truth, pick), LAMBDA r :
        IF r.raised # NoError THEN Answered(r, {route_except(r.raised)})
        ELSE Answered(r, {game_response(game_data) : game_data \in r.choices}))

\* routes/game.py get_stats: GET /stats
route_get_stats(c, tsrc, dsrc) ==
    With(GameService_get_game_stats(c, tsrc, dsrc), LAMBDA r :
        IF r.raised # NoError
        THEN Answered(r, {http_exception(500, <<"Internal server error">>)})
        ELSE Answered(r, {Response(200, stats_data) : stats_data \in r.choices}))

\* HealthResponse(**health_data): status, timestamp, data, categories and
\* difficulties are required fields, error defaults to None; a missing
\* required field fails the validation of the model.
HealthResponse(health_data) ==
    IF {"status", "timestamp", "data", "categories", "difficulties"}
            \subseteq DOMAIN health_data
    THEN [valid |-> TRUE,
          body |-> [status |-> health_data.status,
                    timestamp |-> health_data.timestamp,
                    data |-> health_data.data,
                    categories |-> health_data.categories,
                    difficulties |-> health_data.difficulties,
                    error |-> IF "error" \in DOMAIN health_data
                              THEN health_data.error ELSE NoneValue]]
    ELSE [valid |-> FALSE,
          missing |-> {"status", "timestamp", "data", "categories", "difficulties"}
                          \ DOMAIN health_data]

\* The HealthResponse built in the except clause of health_check.
health_check_fallback(error) ==
    [status |-> "unhealthy", timestamp |-> "",
     data |-> [total_truths |-> 0, total_dares |-> 0,
               truth_categories |-> 0, dare_difficulties |-> 0],
     categories |-> <<>>, difficulties |-> <<>>, error |-> error]

\* routes/game.py health_check: GET /health
health_check(c, tsrc, dsrc) ==
    With(GameService_get_health_status(c, tsrc, dsrc), LAMBDA h :
        IF h.raised # NoError
        THEN [h EXCEPT !.raised = NoError,
                       !.choices = {Response(200, health_check_fallback(str_of(h.raised)))}]
        ELSE [h EXCEPT !.choices =
                {IF HealthResponse(health_data).valid
                 THEN Response(200, HealthResponse(health_data).body)
                 ELSE Response(200, health_check_fallback(
                                        <<"validation error for HealthResponse",
                                          HealthResponse(health_data).missing>>)) :
                    health_data \in h.choices}])

(* ------------------------------ actions -------------------------------- *)

TruthKeys == {StrKey(s_funny), StrKey(s_FUNNY_sp), StrKey(s_Nope_sp), StrKey(s_blank),
              StrKey(s_empty), IntKey(5), NoneKey}
DareKeys == {StrKey(s_hard), StrKey(s_sp_HARD), StrKey(s_Nope_sp), StrKey(s_blank),
             StrKey(s_empty), IntKey(5), NoneKey}

Returned(v) == [kind |-> "return", value |-> v]
Raised(e) == [kind |-> "raise", exc |-> e]

\* What a caller can observe of the call r.
Outcomes(r) ==
    IF r.raised # NoError THEN {Raised(r.raised)}
    ELSE {Returned(v) : v \in r.choices}

\* The operation op(arg) runs as the call r: the cache becomes r.c and the
\* caller gets one of the outcomes of r.
Do(op, arg, call) == \E r \in {call} :
    /\ \E o \in Outcomes(r) : result' = o
    /\ truths' = r.c.truths
    /\ dares' = r.c.dares
    /\ truths_by_category' = r.c.truths_by_category
    /\ dares_by_difficulty' = r.c.dares_by_difficulty
    /\ loaded' = r.c.loaded
    /\ lastCall' = [op |-> op, arg |-> arg]
    /\ loadCalls' = r.loads
    /\ loadOutcome' = r.outcome
    /\ UNCHANGED <<truthsSrc, daresSrc, threads>>

\* DataCache.__init__; the files are whatever the deployment holds.
Init ==
    /\ truthsSrc \in TruthSources
    /\ daresSrc \in DareSources
    /\ truths = <<>>
    /\ dares = <<>>
    /\ truths_by_category = <<>>
    /\ dares_by_difficulty = <<>>
    /\ loaded = FALSE
    /\ lastCall = [op |-> "__init__", arg |-> NoArg]
    /\ result = Returned(NoneValue)
    /\ loadCalls = 0
    /\ loadOutcome = "none"
    /\ threads = [t \in Callers |-> Outside]

\* The environment replaces the truths file.
SetTruthsSource(s) ==
    /\ s # truthsSrc
    /\ truthsSrc' = s
    /\ lastCall' = [op |-> "set_source", arg |-> NoArg]
    /\ result' = Returned(NoneValue)
    /\ UNCHANGED <<daresSrc, cacheVars, loadCalls, loadOutcome, threads>>

\* The environment replaces the dares file.
SetDaresSource(s) ==
    /\ s # daresSrc
    /\ daresSrc' = s
    /\ lastCall' = [op |-> "set_source", arg |-> NoArg]
    /\ result' = Returned(NoneValue)
    /\ UNCHANGED <<truthsSrc, cacheVars, loadCalls, loadOutcome, threads>>

\* data_cache.load_data() as lifespan calls it at every application startup,
\* on the process-wide cache.
LoadData == Do("load_data", NoArg, load_data(Cache, truthsSrc, daresSrc))

EnsureLoaded == Do("ensure_loaded", NoArg, ensure_loaded(Cache, truthsSrc, daresSrc))

GetStats == Do("get_stats", NoArg, DataCache_get_stats(Cache, truthsSrc, daresSrc))

GetRandomTruth ==
    Do("get_random_truth", NoArg, DataCache_get_random_truth(Cache, truthsSrc, daresSrc))

GetRandomDare ==
    Do("get_random_dare", NoArg, DataCache_get_random_dare(Cache, truthsSrc, daresSrc))

GetAvailableCategories ==
    Do("get_available_categories", NoArg,
       TruthService_get_available_categories(Cache, truthsSrc, daresSrc))

GetAvailableDifficulties ==
    Do("get_available_difficulties", NoArg,
       DareService_get_available_difficulties(Cache, truthsSrc, daresSrc))

GetHealthStatus ==
    Do("get_health_status", NoArg,
       GameService_get_health_status(Cache, truthsSrc, daresSrc))

HealthCheck == Do("health_check", NoArg, health_check(Cache, truthsSrc, daresSrc))

GetGameStats ==
    Do("get_game_stats", NoArg, GameService_get_game_stats(Cache, truthsSrc, daresSrc))

\* The places random.choice can draw in a list.
Draws(list) == IF list = <<>> THEN {1} ELSE DOMAIN list

BoolArg(b) == [type |-> "bool", b |-> b]

\* get_random_choice with its two draws; the first is kept with the call.
GetRandomChoice(is_truth, pick) ==
    /\ pick \in Draws(IF is_truth THEN ensure_loaded(Cache, truthsSrc, daresSrc).c.truths
                       ELSE ensure_loaded(Cache, truthsSrc, daresSrc).c.dares)
    /\ Do("get_random_choice", BoolArg(is_truth),
          GameService_get_random_choice(Cache, truthsSrc, daresSrc, is_truth, pick))

\* Path parameters a client sends.
TruthPaths == {s_funny, s_extreme, s_blank}
DarePaths == {s_hard, s_funny, s_blank}

HttpGetRandomTruth(pick) ==
    /\ pick \in Draws(ensure_loaded(Cache, truthsSrc, daresSrc).c.truths)
    /\ Do("GET /truth", NoArg, route_get_random_truth(Cache, truthsSrc, daresSrc, pick))

HttpGetTruthByCategory(path) ==
    Do("GET /truth/{category}", StrKey(path),
       GET_truth_by_category(Cache, truthsSrc, daresSrc, path))

HttpGetAvailableCategories ==
    Do("GET /truth/categories/list", NoArg,
       route_get_available_categories(Cache, truthsSrc, daresSrc))

HttpGetRandomDare(pick) ==
    /\ pick \in Draws(ensure_loaded(Cache, truthsSrc, daresSrc).c.dares)
    /\ Do("GET /dare", NoArg, route_get_random_dare(Cache, truthsSrc, daresSrc, pick))

HttpGetDareByDifficulty(path) ==
    Do("GET /dare/{difficulty}", StrKey(path),
       GET_dare_by_difficulty(Cache, truthsSrc, daresSrc, path))

HttpGetAvailableDifficulties ==
    Do("GET /dare/difficulties/list", NoArg,
       route_get_available_difficulties(Cache, truthsSrc, daresSrc))

HttpGetStats == Do("GET /stats", NoArg, route_get_stats(Cache, truthsSrc, daresSrc))

GetTruthByCategory(k) ==
    Do("get_truth_by_category", k,
       TruthService_get_truth_by_category(Cache, truthsSrc, daresSrc, k))

GetDareByDifficulty(k) ==
    Do("get_dare_by_difficulty", k,
       DareService_get_dare_by_difficulty(Cache, truthsSrc, daresSrc, k))

Next ==
    \/ \E s \in TruthSources : SetTruthsSource(s)
    \/ \E s \in DareSources : SetDaresSource(s)
    \/ LoadData
    \/ EnsureLoaded
    \/ GetStats
    \/ \E k \in TruthKeys : GetTruthByCategory(k)
    \/ \E k \in DareKeys : GetDareByDifficulty(k)

Spec == Init /\ [][Next]_vars

\* The cache under the random draws, the listings and the aggregate views of
\* the services, with the same environment and the same loader.
QueryInit ==
    /\ truthsSrc \in QueryTruthSources
    /\ daresSrc \in QueryDareSources
    /\ truths = <<>>
    /\ dares = <<>>
    /\ truths_by_category = <<>>
    /\ dares_by_difficulty = <<>>
    /\ loaded = FALSE
    /\ lastCall = [op |-> "__init__", arg |-> NoArg]
    /\ result = Returned(NoneValue)
    /\ loadCalls = 0
    /\ loadOutcome = "none"
    /\ threads = [t \in Callers |-> Outside]

QueryNext ==
    \/ \E s \in QueryTruthSources : SetTruthsSource(s)
    \/ \E s \in QueryDareSources : SetDaresSource(s)
    \/ LoadData
    \/ GetRandomTruth
    \/ GetRandomDare
    \/ GetAvailableCategories
    \/ GetAvailableDifficulties
    \/ GetHealthStatus
    \/ HealthCheck
    \/ GetGameStats

QuerySpec == QueryInit /\ [][QueryNext]_vars

\* The cache behind the HTTP routes of the truths, the dares and the
\* statistics, with the same environment and the same loader.
HttpNext ==
    \/ \E s \in TruthSources : SetTruthsSource(s)
    \/ \E s \in DareSources : SetDaresSource(s)
    \/ LoadData
    \/ \E pick \in 1..MaxLen : HttpGetRandomTruth(pick)
    \/ \E path \in TruthPaths : HttpGetTruthByCategory(path)
    \/ HttpGetAvailableCategories
    \/ \E pick \in 1..MaxLen : HttpGetRandomDare(pick)
    \/ \E path \in DarePaths : HttpGetDareByDifficulty(path)
    \/ HttpGetAvailableDifficulties
    \/ HttpGetStats

HttpSpec == Init /\ [][HttpNext]_vars

\* The cache under get_random_choice, which writes into the records it
\* returns.  The files stay as they are at start, so that the records of an
\* index are always the dict objects of the list beside it.
GameNext ==
    \/ LoadData
    \/ \E is_truth \in BOOLEAN, pick \in 1..MaxLen : GetRandomChoice(is_truth, pick)
    \/ GetRandomTruth
    \/ GetRandomDare

GameSpec == Init /\ [][GameNext]_vars

(* ------------------- callers that run at the same time ------------------ *)

\* ensure_loaded and load_data hold no lock, so two callers on two threads
\* run them statement by statement in any order.  A step below is one
\* statement of data_loader.py, with at most one access to a field of the
\* cache.

\* Largest number of records in a source file of the callers that race.
RaceLen == 2

\* d[k] = []
dict_set_empty(idx, k) ==
    IF ~dict_has(idx, k)
    THEN Append(idx, [key |-> k, items |-> <<>>])
    ELSE [i \in DOMAIN idx |-> IF idx[i].key = k THEN [key |-> k, items |-> <<>>]
                                ELSE idx[i]]

\* d[k].append(item), for a key that d has
dict_append(idx, k, item) ==
    [i \in DOMAIN idx |->
        IF idx[i].key = k THEN [key |-> k, items |-> Append(idx[i].items, item)]
        ELSE idx[i]]

\* The statement of caller t raises e inside the try block of load_data: the
\* except clauses turn it into the DataLoadError the call ends with.
Failed(t, e) ==
    [threads EXCEPT ![t].pc = "return", ![t].iter = <<>>, ![t].key = <<>>,
                    ![t].raised = load_data_except(e)]

\* The index that a loop of _build_indexes fills.
IndexOf(loop) == IF loop = "truths" THEN truths_by_category ELSE dares_by_difficulty

\* A statement that stores idx into the index of the loop.
SetIndex(loop, idx) ==
    /\ truths_by_category' = IF loop = "truths" THEN idx ELSE truths_by_category
    /\ dares_by_difficulty' = IF loop = "dares" THEN idx ELSE dares_by_difficulty
    /\ UNCHANGED <<truths, dares, loaded>>

\* ensure_loaded: if not self._loaded: self.load_data()
EnsureLoadedTest(t) ==
    /\ threads[t].pc = "call"
    /\ threads' = IF loaded THEN [threads EXCEPT ![t].pc = "return"]
                  ELSE [threads EXCEPT ![t].pc = "load_truths", ![t].loads = 1]
    /\ UNCHANGED <<truthsSrc, daresSrc, cacheVars, lastCall, result, loadCalls,
                   loadOutcome>>

\* load_data: the truths file is checked and read, self._truths is assigned.
LoadTruths(t) ==
    /\ threads[t].pc = "load_truths"
    /\ IF truthsSrc.state = "missing"
       THEN /\ threads' = Failed(t, DataLoadError(truths_file_path, "File does not exist"))
            /\ UNCHANGED cacheVars
       ELSE IF truthsSrc.state = "malformed"
       THEN /\ threads' = Failed(t, JSONDecodeError)
            /\ UNCHANGED cacheVars
       ELSE /\ truths' = truthsSrc.data
            /\ threads' = [threads EXCEPT ![t].pc = "load_dares"]
            /\ UNCHANGED <<dares, truths_by_category, dares_by_difficulty, loaded>>
    /\ UNCHANGED <<truthsSrc, daresSrc, lastCall, result, loadCalls, loadOutcome>>

\* load_data: the dares file is checked and read, self._dares is assigned.
LoadDares(t) ==
    /\ threads[t].pc = "load_dares"
    /\ IF daresSrc.state = "missing"
       THEN /\ threads' = Failed(t, DataLoadError(dares_file_path, "File does not exist"))
            /\ UNCHANGED cacheVars
       ELSE IF daresSrc.state = "malformed"
       THEN /\ threads' = Failed(t, JSONDecodeError)
            /\ UNCHANGED cacheVars
       ELSE /\ dares' = daresSrc.data
            /\ threads' = [threads EXCEPT ![t].pc = "reset", ![t].loop = "truths"]
            /\ UNCHANGED <<truths, truths_by_category, dares_by_difficulty, loaded>>
    /\ UNCHANGED <<truthsSrc, daresSrc, lastCall, result, loadCalls, loadOutcome>>

\* _build_indexes: self._truths_by_category = {} (self._dares_by_difficulty
\* = {}), and the for statement takes the iterator of the list.
ResetIndex(t) ==
    /\ threads[t].pc = "reset"
    /\ SetIndex(threads[t].loop, <<>>)
    /\ threads' = [threads EXCEPT
                      ![t].pc = "next",
                      ![t].iter = IF threads[t].loop = "truths" THEN truths ELSE dares]
    /\ UNCHANGED <<truthsSrc, daresSrc, lastCall, result, loadCalls, loadOutcome>>

\* _build_indexes: the for statement takes the next element, .get reads its
\* key, and the if statement tests the key against the index.
NextItem(t) ==
    /\ threads[t].pc = "next"
    /\ threads' =
          IF threads[t].iter = <<>>
          THEN IF threads[t].loop = "truths"
               THEN [threads EXCEPT ![t].pc = "reset", ![t].loop = "dares",
                                    ![t].key = <<>>]
               ELSE [threads EXCEPT ![t].pc = "set_loaded", ![t].key = <<>>]
          ELSE IF Head(threads[t].iter).json # "object"
          THEN Failed(t, AttributeError)
          ELSE With(IF threads[t].loop = "truths"
                    THEN dict_get(Head(threads[t].iter), "category", s_general)
                    ELSE dict_get(Head(threads[t].iter), "difficulty", s_medium),
                    LAMBDA key :
                       [threads EXCEPT ![t].key = key,
                                       ![t].pc = IF dict_has(IndexOf(threads[t].loop), key)
                                                 THEN "append" ELSE "new"])
    /\ UNCHANGED <<truthsSrc, daresSrc, cacheVars, lastCall, result, loadCalls,
                   loadOutcome>>

\* _build_indexes: self._truths_by_category[category] = []
NewBucket(t) ==
    /\ threads[t].pc = "new"
    /\ SetIndex(threads[t].loop, dict_set_empty(IndexOf(threads[t].loop), threads[t].key))
    /\ threads' = [threads EXCEPT ![t].pc = "append"]
    /\ UNCHANGED <<truthsSrc, daresSrc, lastCall, result, loadCalls, loadOutcome>>

\* _build_indexes: self._truths_by_category[category].append(truth); the
\* subscript raises KeyError when the index has lost the key.
AppendItem(t) ==
    /\ threads[t].pc = "append"
    /\ IF ~dict_has(IndexOf(threads[t].loop), threads[t].key)
       THEN /\ threads' = Failed(t, KeyError)
            /\ UNCHANGED cacheVars
       ELSE /\ SetIndex(threads[t].loop,
                        dict_append(IndexOf(threads[t].loop), threads[t].key,
                                    Head(threads[t].iter)))
            /\ threads' = [threads EXCEPT ![t].pc = "next",
                                          ![t].iter = Tail(threads[t].iter)]
    /\ UNCHANGED <<truthsSrc, daresSrc, lastCall, result, loadCalls, loadOutcome>>

\* load_data: self._loaded = True, and the call returns.
SetLoaded(t) ==
    /\ threads[t].pc = "set_loaded"
    /\ loaded' = TRUE
    /\ threads' = [threads EXCEPT ![t].pc = "return"]
    /\ UNCHANGED <<truthsSrc, daresSrc, store, lastCall, result, loadCalls, loadOutcome>>

\* The cache with two callers of ensure_loaded on two threads and a reader
\* of the statistics, whose ensure_loaded returns at once when the flag is set.
RaceInit ==
    /\ truthsSrc \in {Parsed(Prefix(TruthsGood, RaceLen)),
                      Parsed(Prefix(TruthsBad, RaceLen))}
    /\ daresSrc \in {Parsed(Prefix(DaresGood, RaceLen)), Missing}
    /\ truths = <<>>
    /\ dares = <<>>
    /\ truths_by_category = <<>>
    /\ dares_by_difficulty = <<>>
    /\ loaded = FALSE
    /\ lastCall = [op |-> "__init__", arg |-> NoArg]
    /\ result = Returned(NoneValue)
    /\ loadCalls = 0
    /\ loadOutcome = "none"
    /\ threads = [t \in Callers |-> Outside]

RaceNext ==
    \/ \E t \in Callers : EnsureLoadedTest(t)
    \/ \E t \in Callers : LoadTruths(t)
    \/ \E t \in Callers : LoadDares(t)
    \/ \E t \in Callers : ResetIndex(t)
    \/ \E t \in Callers : NextItem(t)
    \/ \E t \in Callers : NewBucket(t)
    \/ \E t \in Callers : AppendItem(t)
    \/ \E t \in Callers : SetLoaded(t)
    \/ (loaded /\ GetStats)

RaceSpec == RaceInit /\ [][RaceNext]_vars

(* ============================== claims ================================= *)

IsFailure(outcome) == outcome \in {"missing", "malformed", "build"}

\* Operations that go through ensure_loaded.
QueryOps == {"ensure_loaded", "get_stats", "get_truth_by_category",
             "get_dare_by_difficulty"}

RaisedCls(res) == IF res.kind = "raise" THEN res.exc.cls ELSE "None"

SumCounts(counts) == SumSeq([i \in DOMAIN counts |-> counts[i].count])

\* C1: whenever the cache is marked loaded, get_stats() reports total_truths
\* equal to the sum of the per-category counts and total_dares equal to the
\* sum of the per-difficulty counts.
C1_StatsSumsEqualTotals ==
    loaded =>
        \A st \in DataCache_get_stats(Cache, truthsSrc, daresSrc).choices :
            /\ SumCounts(st.categories) = st.total_truths
            /\ SumCounts(st.difficulties) = st.total_dares

\* C2: after any load_data call that fails, whatever the cache was before,
\* the loaded flag is false.
C2_FailedLoadLeavesUnloaded == IsFailure(loadOutcome) => ~loaded

\* C3: a load that fails at any step leaves the truth list, the dare list
\* and both indexes exactly as they were before the call.
C3_FailedLoadChangesNothing ==
    [][(lastCall'.op # "set_source" /\ IsFailure(loadOutcome')) => UNCHANGED store]_vars

\* A source file that load_data can turn into a loaded cache.
Valid(src) == src.state = "ok" /\ \A i \in DOMAIN src.data : src.data[i].json = "object"

\* C4: after a load attempt that failed on a missing source the cache is not
\* loaded, and the next query that reaches ensure_loaded makes a fresh load
\* attempt, which loads the content of the sources when both are valid.
C4_RetryAfterMissingSource ==
    [][(/\ loadOutcome = "missing"
        /\ lastCall'.op \in QueryOps
        /\ RaisedCls(result') # "ValidationError")
       => /\ ~loaded
          /\ loadCalls' = 1
          /\ (Valid(truthsSrc) /\ Valid(daresSrc))
                => (loaded' /\ truths' = truthsSrc.data /\ dares' = daresSrc.data)]_vars

\* C5: ensure_loaded on a loaded cache does not call load_data and changes
\* neither the store, the indexes nor the flag; on a cache that is not loaded
\* it calls load_data exactly once.
C5_EnsureLoadedIdempotent ==
    [][lastCall'.op = "ensure_loaded"
       => IF loaded THEN loadCalls' = 0 /\ UNCHANGED cacheVars
          ELSE loadCalls' = 1]_vars

C5_Witness ==
    lastCall.op = "ensure_loaded" /\ loaded /\ loadCalls = 0 /\ Len(truths) >= 2

\* C6: load_data reports a missing source as a load error of the
\* source-missing kind that names the missing path, an unparsable source as
\* one of the source-malformed kind, both with status 500.
C6_LoadErrorNamesItsCause ==
    (lastCall.op = "load_data" /\ loadOutcome \in {"missing", "malformed"})
    => /\ result.kind = "raise"
       /\ result.exc.cls = "DataLoadError"
       /\ result.exc.status_code = 500
       /\ loadOutcome = "missing"
            => /\ result.exc.reason = "File does not exist"
               /\ result.exc.file_path = IF truthsSrc.state = "missing"
                                          THEN truths_file_path ELSE dares_file_path
       /\ loadOutcome = "malformed" => result.exc.reason = "Invalid JSON format"

\* The bucket key of a stored record.
KeyOf(item, field, default) ==
    IF field \in DOMAIN item.fields THEN item.fields[field] ELSE default

\* idx is an order-preserving partition of list by the bucket key.
IsPartition(idx, list, field, default) ==
    /\ \A i, j \in DOMAIN idx : idx[i].key = idx[j].key => i = j
    /\ \A i \in DOMAIN idx :
          /\ idx[i].items # <<>>
          /\ idx[i].items =
                SelectSeq(list, LAMBDA item : KeyOf(item, field, default) = idx[i].key)
    /\ \A n \in DOMAIN list :
          \E i \in DOMAIN idx : idx[i].key = KeyOf(list[n], field, default)
    /\ SumSeq([i \in DOMAIN idx |-> Len(idx[i].items)]) = Len(list)

\* C7: after every successful load each index is an order-preserving
\* partition of its list: every record is in exactly one bucket, once, no
\* bucket is empty and a bucket keeps the order of the source list.
C7_IndexIsOrderedPartition ==
    loadOutcome = "ok"
    => /\ IsPartition(truths_by_category, truths, "category", s_general)
       /\ IsPartition(dares_by_difficulty, dares, "difficulty", s_medium)

C7_Witness ==
    /\ loadOutcome = "ok"
    /\ Len(truths_by_category) >= 2
    /\ \E i \in DOMAIN truths_by_category : Len(truths_by_category[i].items) >= 2
    /\ \E i \in DOMAIN dares_by_difficulty : Len(dares_by_difficulty[i].items) >= 2

\* Two calls that a caller cannot tell apart: the same error kind, or the
\* same set of records that can come back.
SameOutcome(r1, r2) == r1.raised.cls = r2.raised.cls /\ r1.choices = r2.choices

TruthLookup(k) == TruthService_get_truth_by_category(Cache, truthsSrc, daresSrc, k)
DareLookup(k) == DareService_get_dare_by_difficulty(Cache, truthsSrc, daresSrc, k)

\* C8 as stated: for every string key k the lookup of k and the lookup of
\* lowercase(trim(k)) have the same outcome.
C8_EveryKeyLooksUpAsItsNormalForm ==
    /\ \A k \in TruthKeys : k.type = "str"
          => SameOutcome(TruthLookup(k), TruthLookup(StrKey(Lower(Strip(k.s)))))
    /\ \A k \in DareKeys : k.type = "str"
          => SameOutcome(DareLookup(k), DareLookup(StrKey(Lower(Strip(k.s)))))

\* C8: for every string key k that holds a character other than whitespace,
\* the lookup of k and the lookup of lowercase(trim(k)) have the same outcome.
C8_NonBlankKeyLooksUpAsItsNormalForm ==
    /\ \A k \in TruthKeys : (k.type = "str" /\ Strip(k.s) # <<>>)
          => SameOutcome(TruthLookup(k), TruthLookup(StrKey(Lower(Strip(k.s)))))
    /\ \A k \in DareKeys : (k.type = "str" /\ Strip(k.s) # <<>>)
          => SameOutcome(DareLookup(k), DareLookup(StrKey(Lower(Strip(k.s)))))

C8_Witness ==
    /\ lastCall = [op |-> "get_truth_by_category", arg |-> StrKey(s_FUNNY_sp)]
    /\ result.kind = "return"
    /\ result.value.fields.category = s_funny

\* l lists exactly the keys of idx, each once.
ListsKeysOf(l, idx) ==
    /\ Len(l) = Len(idx)
    /\ SeqToSet(l) = {idx[i].key : i \in DOMAIN idx}

IsSorted(l) == \A i, j \in DOMAIN l : i < j => StrLess(l[i], l[j])

Priority(level) ==
    IF level = s_easy THEN 0 ELSE IF level = s_medium THEN 1
    ELSE IF level = s_hard THEN 2 ELSE 3

IsPriorityOrdered(l) == \A i, j \in DOMAIN l : i < j => Priority(l[i]) <= Priority(l[j])

\* What C9 says of the error itself, in the state after the failed lookup.
NotFoundCarriesInputAndKeys ==
    /\ RaisedCls(result) = "CategoryNotFoundError"
          => /\ result.exc.status_code = 404
             /\ result.exc.requested_category = lastCall.arg.s
             /\ ListsKeysOf(result.exc.available_categories, truths_by_category)
             /\ IsSorted(result.exc.available_categories)
    /\ RaisedCls(result) = "DifficultyNotFoundError"
          => /\ result.exc.status_code = 404
             /\ result.exc.requested_difficulty = lastCall.arg.s
             /\ ListsKeysOf(result.exc.available_difficulties, dares_by_difficulty)
             /\ IsPriorityOrdered(result.exc.available_difficulties)

IsNotFound(res) ==
    RaisedCls(res) \in {"CategoryNotFoundError", "DifficultyNotFoundError"}

\* C9 as stated: a lookup whose normalized key has no bucket fails with a
\* 404 not-found error carrying the original input and the listed keys, and
\* leaves the store unchanged.
C9_NotFoundLeavesStoreUnchanged ==
    [][IsNotFound(result') => (NotFoundCarriesInputAndKeys' /\ UNCHANGED store)]_vars

\* C9: a lookup whose normalized key has no bucket fails with a 404
\* not-found error carrying the original input and the listed keys; it
\* leaves the store unchanged when the cache was loaded before the call, and
\* otherwise changes it only by the one load that ensure_loaded makes.
C9_NotFoundCarriesInputAndKeys ==
    [][IsNotFound(result')
       => /\ NotFoundCarriesInputAndKeys'
          /\ loaded => (UNCHANGED cacheVars /\ loadCalls' = 0)
          /\ ~loaded => (loadCalls' = 1 /\ loadOutcome' = "ok"
                         /\ truths' = truthsSrc.data /\ dares' = daresSrc.data)]_vars

C9_Witness ==
    /\ lastCall = [op |-> "get_truth_by_category", arg |-> StrKey(s_Nope_sp)]
    /\ RaisedCls(result) = "CategoryNotFoundError"
    /\ Len(result.exc.available_categories) >= 3
    /\ loadCalls = 0

InvalidKey(k) == k.type # "str" \/ k.s = <<>>

\* C10: an empty or non-string key is rejected with a validation error
\* (status 422) before any access to the cache: no load attempt is made and
\* the cache is unchanged, loaded or not.
C10_InvalidKeyRejectedBeforeCache ==
    [][(lastCall'.op \in {"get_truth_by_category", "get_dare_by_difficulty"}
        /\ InvalidKey(lastCall'.arg))
       => /\ RaisedCls(result') = "ValidationError"
          /\ result'.exc.status_code = 422
          /\ loadCalls' = 0
          /\ loadOutcome' = "none"
          /\ UNCHANGED cacheVars]_vars

C10_Witness ==
    /\ lastCall = [op |-> "get_dare_by_difficulty", arg |-> IntKey(5)]
    /\ RaisedCls(result) = "ValidationError"
    /\ result.exc.status_code = 422
    /\ ~loaded

\* What C11 says of one random draw: on a loaded cache the call r over the
\* list fails with NoDataAvailable of the given kind and status 404 exactly
\* when the list is empty, and otherwise can return exactly the records of
\* the list.
DrawsFromWholeList(r, list, kind) ==
    /\ (r.raised # NoError) <=> (list = <<>>)
    /\ list = <<>> => /\ r.raised.cls = "NoDataAvailableError"
                      /\ r.raised.filter_type = kind
                      /\ r.raised.status_code = 404
    /\ list # <<>> => r.choices = {list[n] : n \in DOMAIN list}

\* C11: on a loaded cache get_random_truth (get_random_dare) fails with
\* NoDataAvailable for truths (dares), status 404, exactly when the full list
\* is empty; otherwise the records it can return are exactly the records of
\* the full list, and a record it has returned is one of them.
C11_RandomDrawsFromWholeList ==
    loaded =>
        /\ DrawsFromWholeList(DataCache_get_random_truth(Cache, truthsSrc, daresSrc),
                              truths, s_truths)
        /\ DrawsFromWholeList(DataCache_get_random_dare(Cache, truthsSrc, daresSrc),
                              dares, s_dares)
        /\ (lastCall.op = "get_random_truth" /\ result.kind = "return")
              => result.value \in {truths[n] : n \in DOMAIN truths}
        /\ (lastCall.op = "get_random_dare" /\ result.kind = "return")
              => result.value \in {dares[n] : n \in DOMAIN dares}

\* A draw has returned the last record of a truth list of three records or
\* more whose buckets differ.
C11_Witness ==
    /\ loaded
    /\ lastCall.op = "get_random_truth"
    /\ Len(truths) >= 3
    /\ Len(truths_by_category) >= 2
    /\ result = Returned(truths[Len(truths)])

\* The sum of the bucket sizes of an index.
BucketSum(idx) == SumSeq([i \in DOMAIN idx |-> Len(idx[i].items)])

\* The latest operation was get_health_status and it returned a payload.
HealthReturned == lastCall.op = "get_health_status" /\ result.kind = "return"

\* C12: the status of get_health_status is a total function of the total
\* truth count T and the total dare count D it reports: unhealthy when both
\* are 0, degraded when exactly one is 0, healthy when both are above 0; on
\* the path without error T and D are the totals of the two indexes.
C12_StatusIsFunctionOfTotals ==
    HealthReturned =>
        LET T == result.value.data.total_truths
            D == result.value.data.total_dares
        IN  /\ "error" \notin DOMAIN result.value
                  => /\ T = BucketSum(truths_by_category)
                     /\ D = BucketSum(dares_by_difficulty)
            /\ (T = 0 /\ D = 0) => result.value.status = "unhealthy"
            /\ ((T = 0) # (D = 0)) => result.value.status = "degraded"
            /\ (T > 0 /\ D > 0) => result.value.status = "healthy"
            /\ T >= 0 /\ D >= 0

\* A loaded cache without truths and with dares has been reported degraded.
C12_Witness ==
    /\ HealthReturned
    /\ loaded
    /\ result.value.status = "degraded"
    /\ result.value.data.total_truths = 0
    /\ result.value.data.total_dares >= 2

\* C13: get_health_status never fails: in every state the call returns a
\* payload; a failed load attempt inside it is reported as 'unhealthy' with
\* the error string attached; GET /health always answers 200.
C13_HealthNeverFails ==
    /\ GameService_get_health_status(Cache, truthsSrc, daresSrc).raised = NoError
    /\ lastCall.op = "get_health_status"
          => /\ result.kind = "return"
             /\ IsFailure(loadOutcome)
                   => /\ result.value.status = "unhealthy"
                      /\ "error" \in DOMAIN result.value
                      /\ result.value.error[1] = "Failed to load data file: "
    /\ lastCall.op = "health_check"
          => /\ result.kind = "return"
             /\ result.value.status_code = 200
             /\ IsFailure(loadOutcome)
                   => /\ result.value.body.status = "unhealthy"
                      /\ result.value.body.error # NoneValue

\* GET /health has answered 200 and 'unhealthy' on a cache that is not
\* loaded and whose load attempt failed.
C13_Witness ==
    /\ lastCall.op = "health_check"
    /\ ~loaded
    /\ loadCalls = 1
    /\ IsFailure(loadOutcome)
    /\ result.value.status_code = 200
    /\ result.value.body.status = "unhealthy"

\* C14: every payload returned by get_health_status holds the status, the
\* totals, the per-category counts and the per-difficulty counts.
C14_EveryHealthPayloadIsComplete ==
    HealthReturned
    => {"status", "data", "categories", "difficulties"} \subseteq DOMAIN result.value

\* C15: get_available_categories of the truth service returns the keys of
\* the category index in lexicographically sorted order, each key once, and
\* in a given store it has one possible result only.
C15_CategoriesSortedAndStable ==
    /\ loaded =>
          LET r == TruthService_get_available_categories(Cache, truthsSrc, daresSrc)
          IN  /\ r.raised = NoError
              /\ Cardinality(r.choices) = 1
              /\ \A l \in r.choices : ListsKeysOf(l, truths_by_category) /\ IsSorted(l)
    /\ (lastCall.op = "get_available_categories" /\ result.kind = "return")
          => /\ ListsKeysOf(result.value, truths_by_category)
             /\ IsSorted(result.value)

\* The categories have been listed for an index whose keys were created in
\* an order that is not the sorted one.
C15_Witness ==
    /\ lastCall.op = "get_available_categories"
    /\ result.kind = "return"
    /\ Len(result.value) >= 3
    /\ result.value # dict_keys(truths_by_category)

\* The place of key k in the order in which the buckets of idx were created.
CreatedAt(idx, k) == CHOOSE i \in DOMAIN idx : idx[i].key = k

\* l holds the keys of idx, each once, easy, medium, hard first in that
\* order, then the other keys in the order in which their buckets were made.
IsDifficultyOrder(l, idx) ==
    /\ ListsKeysOf(l, idx)
    /\ IsPriorityOrdered(l)
    /\ \A i, j \in DOMAIN l :
          (i < j /\ Priority(l[i]) = 3 /\ Priority(l[j]) = 3)
              => CreatedAt(idx, l[i]) < CreatedAt(idx, l[j])

\* C16: get_available_difficulties of the dare service returns a permutation
\* of the keys of the difficulty index in which the present members of easy,
\* medium, hard come first in that order, followed by the other keys in the
\* order in which their buckets were created.
C16_DifficultiesInPriorityOrder ==
    /\ loaded =>
          LET r == DareService_get_available_difficulties(Cache, truthsSrc, daresSrc)
          IN  /\ r.raised = NoError
              /\ \A l \in r.choices : IsDifficultyOrder(l, dares_by_difficulty)
    /\ (lastCall.op = "get_available_difficulties" /\ result.kind = "return")
          => IsDifficultyOrder(result.value, dares_by_difficulty)

\* The difficulties have been listed for an index with two keys outside
\* easy, medium, hard and with a standard key created after another key.
C16_Witness ==
    /\ lastCall.op = "get_available_difficulties"
    /\ result.kind = "return"
    /\ Len(result.value) >= 3
    /\ result.value # dict_keys(dares_by_difficulty)
    /\ Priority(result.value[Len(result.value) - 1]) = 3

\* C17: in every result of get_game_stats total_items is truths.total plus
\* dares.total, truths.total is the sum of the per-category counts and
\* dares.total is the sum of the per-difficulty counts.
C17_GameStatsTotalsAddUp ==
    (lastCall.op = "get_game_stats" /\ result.kind = "return")
    => /\ result.value.total_items = result.value.truths.total + result.value.dares.total
       /\ result.value.truths.total = SumCounts(result.value.truths.categories)
       /\ result.value.dares.total = SumCounts(result.value.dares.difficulties)
       /\ result.value.truths.total = BucketSum(truths_by_category)
       /\ result.value.dares.total = BucketSum(dares_by_difficulty)

\* get_game_stats has returned for a store loaded from valid files with
\* different numbers of truths and dares in several buckets.
C17_Witness ==
    /\ lastCall.op = "get_game_stats"
    /\ loadOutcome = "ok"
    /\ result.kind = "return"
    /\ Len(result.value.truths.categories) >= 2
    /\ Len(result.value.dares.difficulties) >= 2
    /\ result.value.truths.total # result.value.dares.total
    /\ result.value.total_items >= 5

\* The latest operation was get_random_choice and it returned a record.
ChoiceReturned == lastCall.op = "get_random_choice" /\ result.kind = "return"

\* C18: every record returned by get_random_choice carries a type, 'truth'
\* or 'dare'; it is 'truth' exactly when the record is one of the truth list
\* and 'dare' exactly when it is one of the dare list; with both lists
\* non-empty each of the two draws ends in a record of its kind.
C18_ChoiceCarriesItsKind ==
    /\ ChoiceReturned
          => /\ "type" \in DOMAIN result.value.fields
             /\ result.value.fields.type \in {"truth", "dare"}
             /\ result.value.fields.type = "truth" <=> result.value \in SeqToSet(truths)
             /\ result.value.fields.type = "dare" <=> result.value \in SeqToSet(dares)
             /\ result.value.fields.type = "truth" <=> lastCall.arg.b
    /\ (loaded /\ truths # <<>> /\ dares # <<>>)
          => \A is_truth \in BOOLEAN :
                \E pick \in Draws(IF is_truth THEN truths ELSE dares) :
                    LET r == GameService_get_random_choice(Cache, truthsSrc, daresSrc,
                                                           is_truth, pick)
                    IN  /\ r.raised = NoError
                        /\ \A v \in r.choices :
                              v.fields.type = IF is_truth THEN "truth" ELSE "dare"

\* A dare has been returned with its type by a cache that also holds truths,
\* one of them returned and typed before.
C18_Witness ==
    /\ ChoiceReturned
    /\ result.value.fields.type = "dare"
    /\ result.value \in SeqToSet(dares)
    /\ Len(truths) >= 2
    /\ \E n \in DOMAIN truths : "type" \in DOMAIN truths[n].fields

\* C19: get_random_choice fails with the NoDataAvailable error of the kind it
\* chose, truths when it chose truth and the truth list is empty, dares when
\* it chose dare and the dare list is empty, whatever the other list holds.
C19_ChoicePropagatesNoData ==
    (lastCall.op = "get_random_choice" /\ loaded)
    => /\ (lastCall.arg.b /\ truths = <<>>)
             => result = Raised(NoDataAvailableError(s_truths, s_any))
       /\ (~lastCall.arg.b /\ dares = <<>>)
             => result = Raised(NoDataAvailableError(s_dares, s_any))

\* Truth was chosen, the truth list is empty, the dare list is not, and the
\* call failed for want of truths.
C19_Witness ==
    /\ lastCall = [op |-> "get_random_choice", arg |-> BoolArg(TRUE)]
    /\ loaded
    /\ truths = <<>>
    /\ Len(dares) >= 2
    /\ result = Raised(NoDataAvailableError(s_truths, s_any))

\* The status that C20 fixes for each error kind.
StatusOfKind(cls) ==
    CASE cls = "CategoryNotFoundError" -> 404
      [] cls = "DifficultyNotFoundError" -> 404
      [] cls = "NoDataAvailableError" -> 404
      [] cls = "DataLoadError" -> 500
      [] cls = "ValidationError" -> 422

\* The route call h answers the error of the service call r with the status
\* of its kind.
KeepsStatus(r, h) ==
    IsAPIException(r.raised)
    => /\ h.raised = NoError
       /\ h.choices # {}
       /\ \A response \in h.choices : response.status_code = StatusOfKind(r.raised.cls)

\* The route call h answers a load failure with 500 and never fails itself.
Answers500OnLoadFailure(r, h) ==
    /\ h.raised = NoError
    /\ r.raised # NoError
          => /\ r.raised.cls = "DataLoadError"
             /\ \A response \in h.choices : response.status_code = 500

\* The error kind that the message of an error body tells.
KindOfMessage(message) ==
    CASE message[1] = "Category '" -> "CategoryNotFoundError"
      [] message[1] = "Difficulty '" -> "DifficultyNotFoundError"
      [] message[1] = "No data available for " -> "NoDataAvailableError"
      [] message[1] = "Failed to load data file: " -> "DataLoadError"
      [] message[1] = "Validation error for field '" -> "ValidationError"
      [] message[1] = "Request validation failed" -> "ValidationError"
      [] OTHER -> "None"

HttpOps == {"GET /truth", "GET /truth/{category}", "GET /truth/categories/list",
            "GET /dare", "GET /dare/{difficulty}", "GET /dare/difficulties/list",
            "GET /stats"}

C21_QueriesLeaveStoreUnchanged ==
    [][(loaded /\ lastCall'.op \in {"get_random_truth", "get_random_dare",
                                    "get_random_choice"})
       => UNCHANGED store]_vars

\* Every key of idx is in lower case.
KeysAreLowercase(idx) == \A i \in DOMAIN idx : idx[i].key = Lower(idx[i].key)

\* The bucket of idx in which the record item sits.
BucketOf(idx, item) ==
    {idx[i].key : i \in {j \in DOMAIN idx : item \in SeqToSet(idx[j].items)}}

\* C22: after a successful load every key of the category index and of the
\* difficulty index is lowercase, and a record whose category or difficulty
\* holds uppercase letters sits under the lowercased key.
C22_BucketKeysAreLowercase ==
    loadOutcome = "ok"
    => /\ KeysAreLowercase(truths_by_category)
       /\ KeysAreLowercase(dares_by_difficulty)
       /\ \A n \in DOMAIN truths :
             BucketOf(truths_by_category, truths[n])
                = {Lower(KeyOf(truths[n], "category", s_general))}
       /\ \A n \in DOMAIN dares :
             BucketOf(dares_by_difficulty, dares[n])
                = {Lower(KeyOf(dares[n], "difficulty", s_medium))}

\* C23: when both sources exist and parse, load_data succeeds whatever the
\* shape of a single record; a truth without category is then in the bucket
\* 'general' and a dare without difficulty in the bucket 'medium'.
C23_LoadIsLenientTowardsRecords ==
    (lastCall.op = "load_data" /\ truthsSrc.state = "ok" /\ daresSrc.state = "ok")
    => /\ result.kind = "return"
       /\ loadOutcome = "ok"
       /\ loaded
       /\ \A n \in DOMAIN truths :
             "category" \notin DOMAIN truths[n].fields
                => BucketOf(truths_by_category, truths[n]) = {s_general}
       /\ \A n \in DOMAIN dares :
             "difficulty" \notin DOMAIN dares[n].fields
                => BucketOf(dares_by_difficulty, dares[n]) = {s_medium}

\* C26: on every store that load_data produces, every record that
\* get_truth_by_category can return for a key carries a category equal to
\* that key, and every record that get_dare_by_difficulty can return carries
\* a difficulty equal to its key.
C26_ReturnedRecordCarriesItsKey ==
    loadOutcome = "ok"
    => /\ \A i \in DOMAIN truths_by_category :
             \A truth \in DataCache_get_truth_by_category(
                              Cache, truthsSrc, daresSrc,
                              truths_by_category[i].key).choices :
                /\ "category" \in DOMAIN truth.fields
                /\ truth.fields.category = truths_by_category[i].key
       /\ \A i \in DOMAIN dares_by_difficulty :
             \A dare \in DataCache_get_dare_by_difficulty(
                             Cache, truthsSrc, daresSrc,
                             dares_by_difficulty[i].key).choices :
                /\ "difficulty" \in DOMAIN dare.fields
                /\ dare.fields.difficulty = dares_by_difficulty[i].key

\* C27: load_data runs only behind the test of ensure_loaded: no operation
\* starts a load on a cache that is already loaded, and no operation makes
\* more than one load attempt.
C27_LoadStartsOnlyWhenNotLoaded ==
    [][(lastCall'.op # "set_source" /\ loadCalls' > 0)
       => (~loaded /\ loadCalls' = 1)]_vars

\* The cache query r loads before it reads: it ends with the cache loaded
\* unless the load failed, and after a failed load it raises the load error
\* and offers no value.
LoadsBeforeReading(r) ==
    /\ (r.raised = NoError \/ r.raised.cls # "DataLoadError") => r.c.loaded
    /\ (r.loads > 0 /\ IsFailure(r.outcome))
          => /\ r.raised # NoError
             /\ r.raised.cls = "DataLoadError"
             /\ r.choices = {}
             /\ ~r.c.loaded

\* C28: every query of the cache (random pick, pick by key, key listing,
\* stats) ends with the cache loaded or with the load error; a query that
\* starts on an unloaded cache and whose load fails raises DataLoadError and
\* returns nothing, also when the truths were read before the dares failed.
C28_QueriesLoadBeforeReading ==
    /\ LoadsBeforeReading(DataCache_get_stats(Cache, truthsSrc, daresSrc))
    /\ LoadsBeforeReading(DataCache_get_random_truth(Cache, truthsSrc, daresSrc))
    /\ LoadsBeforeReading(DataCache_get_random_dare(Cache, truthsSrc, daresSrc))
    /\ LoadsBeforeReading(DataCache_get_available_categories(Cache, truthsSrc, daresSrc))
    /\ LoadsBeforeReading(DataCache_get_available_difficulties(Cache, truthsSrc,
                                                              daresSrc))
    /\ \A key \in {s_general, s_funny, s_medium, s_hard} :
          /\ LoadsBeforeReading(DataCache_get_truth_by_category(Cache, truthsSrc,
                                                               daresSrc, key))
          /\ LoadsBeforeReading(DataCache_get_dare_by_difficulty(Cache, truthsSrc,
                                                                daresSrc, key))

\* get_stats has started on an unloaded cache, the truths were read, the
\* dares source failed, and the call ended with the load error.
C28_Witness ==
    /\ lastCall.op = "get_stats"
    /\ loadCalls = 1
    /\ loadOutcome = "missing"
    /\ daresSrc.state = "missing"
    /\ truths # <<>>
    /\ truths = truthsSrc.data
    /\ dares = <<>>
    /\ ~loaded
    /\ RaisedCls(result) = "DataLoadError"

\* C29: on a store that load_data has produced, every key listed by
\* get_available_categories is found by get_truth_by_category, which returns
\* a record of the bucket of that key, and every key listed by
\* get_available_difficulties is found by get_dare_by_difficulty likewise.
C29_ListedKeysAreFound ==
    loadOutcome = "ok"
    => /\ \A categories \in TruthService_get_available_categories(
                                  Cache, truthsSrc, daresSrc).choices :
             \A i \in DOMAIN categories :
                With(TruthService_get_truth_by_category(Cache, truthsSrc, daresSrc,
                                                        StrKey(categories[i])),
                     LAMBDA r :
                        /\ r.raised = NoError
                        /\ r.choices
                             \subseteq SeqToSet(dict_at(truths_by_category,
                                                        categories[i])))
       /\ \A difficulties \in DareService_get_available_difficulties(
                                    Cache, truthsSrc, daresSrc).choices :
             \A i \in DOMAIN difficulties :
                With(DareService_get_dare_by_difficulty(Cache, truthsSrc, daresSrc,
                                                        StrKey(difficulties[i])),
                     LAMBDA r :
                        /\ r.raised = NoError
                        /\ r.choices
                             \subseteq SeqToSet(dict_at(dares_by_difficulty,
                                                        difficulties[i])))

\* The route answers 200 whenever the call r of its service returns a record.
RecordIsAnswered200(r, answer) ==
    r.raised = NoError => \A response \in answer.choices : response.status_code = 200

\* C30: whenever the truth, dare or game service returns a record, the route
\* built on it answers 200, whatever the category or difficulty of the record.
C30_ReturnedRecordIsAnswered200 ==
    /\ \A pick \in Draws(ensure_loaded(Cache, truthsSrc, daresSrc).c.truths) :
          /\ RecordIsAnswered200(
                 TruthService_get_random_truth(Cache, truthsSrc, daresSrc, pick),
                 route_get_random_truth(Cache, truthsSrc, daresSrc, pick))
          /\ RecordIsAnswered200(
                 GameService_get_random_choice(Cache, truthsSrc, daresSrc, TRUE, pick),
                 route_get_random_game(Cache, truthsSrc, daresSrc, TRUE, pick))
    /\ \A pick \in Draws(ensure_loaded(Cache, truthsSrc, daresSrc).c.dares) :
          /\ RecordIsAnswered200(
                 DareService_get_random_dare(Cache, truthsSrc, daresSrc, pick),
                 route_get_random_dare(Cache, truthsSrc, daresSrc, pick))
          /\ RecordIsAnswered200(
                 GameService_get_random_choice(Cache, truthsSrc, daresSrc, FALSE, pick),
                 route_get_random_game(Cache, truthsSrc, daresSrc, FALSE, pick))
    /\ \A path \in TruthPaths :
          RecordIsAnswered200(
              TruthService_get_truth_by_category(Cache, truthsSrc, daresSrc,
                                                 StrKey(path)),
              route_get_truth_by_category(Cache, truthsSrc, daresSrc, StrKey(path)))
    /\ \A path \in DarePaths :
          RecordIsAnswered200(
              DareService_get_dare_by_difficulty(Cache, truthsSrc, daresSrc,
                                                 StrKey(path)),
              route_get_dare_by_difficulty(Cache, truthsSrc, daresSrc, StrKey(path)))

\* DataCache.__init__
EmptyCache ==
    [truths |-> <<>>, dares |-> <<>>, truths_by_category |-> <<>>,
     dares_by_difficulty |-> <<>>, loaded |-> FALSE]

\* C24: when two callers have both seen the cache not loaded and have both
\* run load_data on the same valid sources, then, however their statements
\* were interleaved, the cache ends loaded with the lists and the indexes
\* that one load alone produces.
C24_RacingLoadsEndAsOneLoad ==
    (/\ \A t \in Callers : threads[t].pc = "return" /\ threads[t].loads = 1
     /\ Valid(truthsSrc)
     /\ Valid(daresSrc))
    => /\ loaded
       /\ Cache = load_data(EmptyCache, truthsSrc, daresSrc).c

\* C25: while the loaded flag is set and a load is in progress, a query sees
\* complete indexes: the statistics add up to the totals and every record of
\* the lists is found under its key.
C25_LoadedIndexIsNeverPartial ==
    (loaded /\ \E t \in Callers : threads[t].pc \notin {"call", "return"})
    => /\ \A st \in DataCache_get_stats(Cache, truthsSrc, daresSrc).choices :
             /\ SumCounts(st.categories) = st.total_truths
             /\ SumCounts(st.difficulties) = st.total_dares
       /\ \A n \in DOMAIN truths :
             With(DataCache_get_truth_by_category(
                      Cache, truthsSrc, daresSrc,
                      KeyOf(truths[n], "category", s_general)),
                  LAMBDA r : r.raised = NoError /\ truths[n] \in r.choices)
       /\ \A n \in DOMAIN dares :
             With(DataCache_get_dare_by_difficulty(
                      Cache, truthsSrc, daresSrc,
                      KeyOf(dares[n], "difficulty", s_medium)),
                  LAMBDA r : r.raised = NoError /\ dares[n] \in r.choices)

====
